---- MODULE Spec2Model ----
(***************************************************************************)
(* Model of the invoice extraction pipeline: the HTTP entry point          *)
(* (app.py), the orchestrator (process_invoice.py), the hosted-model       *)
(* strategy (ai_processor.py), the OCR strategy (ocr.py) and the pattern   *)
(* extractor (nlp_parser.py).  One behaviour of the model is one request.  *)
(*                                                                         *)
(* Python dicts are functions over their key set, so that the presence of  *)
(* a key is part of the value.  Texts are sequences of one-character       *)
(* strings.  Calls into libraries and services (the hosted model, the OCR  *)
(* engine, the PDF rasterizer, the file system writes, the regex engine)   *)
(* are nondeterministic choices over the outcomes they can produce.        *)
(* print() and the os.path.exists/os.unlink pair are taken not to raise.   *)
(***************************************************************************)
EXTENDS Integers, Sequences, FiniteSets, TLC

\* ------------------------------------------------------------------ bounds
MaxTextLen == 11    \* longest text body the OCR engine emits in the model
MaxPages == 2       \* most pages the rasterizer yields for one PDF
MaxPad == 1         \* most whitespace characters around an engine output

\* --------------------------------------------------------------- constants
MinTextLen == 10    \* the orchestrator's and the parser's length threshold
MaxDates == 5       \* dates_found is cut to this many entries

None == "None"         \* Python's None where the other values are strings
Null == <<"None">>      \* Python's None where the other values are texts

\* ------------------------------------------------------------ dict helpers
Update(d, u) ==
    [k \in (DOMAIN d) \cup (DOMAIN u) |-> IF k \in DOMAIN u THEN u[k] ELSE d[k]]

Get(d, k, default) == IF k \in DOMAIN d THEN d[k] ELSE default

\* ------------------------------------------------------------ text helpers
Whitespace == {" ", "\n"}

RECURSIVE LStrip(_)
LStrip(s) ==
    IF s = <<>> THEN <<>>
    ELSE IF Head(s) \in Whitespace THEN LStrip(Tail(s)) ELSE s

RECURSIVE RStrip(_)
RStrip(s) ==
    IF s = <<>> THEN <<>>
    ELSE IF s[Len(s)] \in Whitespace THEN RStrip(SubSeq(s, 1, Len(s) - 1)) ELSE s

Strip(s) == RStrip(LStrip(s))

\* Python slice s[a:-b] for a, b >= 0 and b > 0
Slice(s, a, b) == SubSeq(s, a + 1, Len(s) - b)

StartsWith(s, p) == Len(s) >= Len(p) /\ SubSeq(s, 1, Len(p)) = p

RECURSIVE Rep(_, _)
Rep(c, n) == IF n <= 0 THEN <<>> ELSE <<c>> \o Rep(c, n - 1)

RECURSIVE Join(_, _)
Join(sep, parts) ==
    IF parts = <<>> THEN <<>>
    ELSE IF Len(parts) = 1 THEN parts[1]
    ELSE parts[1] \o sep \o Join(sep, Tail(parts))

Digit(n) == CASE n = 1 -> "1" [] n = 2 -> "2" [] n = 3 -> "3" [] n = 4 -> "4"
              [] n = 5 -> "5" [] n = 6 -> "6" [] n = 7 -> "7" [] n = 8 -> "8"
              [] OTHER -> "9"

\* ------------------------------------------------------------------ inputs
Exts == {".pdf", ".png", ".txt"}
ExtChars(e) == CASE e = ".pdf" -> <<".", "p", "d", "f">>
                 [] e = ".png" -> <<".", "p", "n", "g">>
                 [] OTHER -> <<".", "t", "x", "t">>
FileType(e) == CASE e = ".pdf" -> "PDF" [] e = ".png" -> "PNG" [] OTHER -> "TXT"

allowed_extensions == {".pdf", ".jpg", ".jpeg", ".png", ".tiff", ".tif", ".bmp", ".webp"}
image_extensions == {".jpg", ".jpeg", ".png", ".tiff", ".tif", ".bmp", ".webp"}
Methods == {"ai", "traditional", "hybrid"}

\* Outputs of the OCR engine: a body of n visible characters with up to
\* MaxPad whitespace characters on each side.
EngineText(lead, n, trail) == Rep(" ", lead) \o Rep("x", n) \o Rep("\n", trail)
EngineTexts ==
    {EngineText(l, n, t) : l \in 0..MaxPad, n \in {0, 1, MinTextLen - 1, MinTextLen, MaxTextLen},
                           t \in 0..MaxPad}
PageTexts == {EngineText(0, 0, 1), EngineText(1, 1, 0), EngineText(0, MinTextLen, 0)}

RECURSIVE SeqsUpTo(_, _)
SeqsUpTo(S, n) ==
    IF n = 0 THEN {<<>>}
    ELSE LET shorter == SeqsUpTo(S, n - 1)
         IN shorter \cup {Append(s, x) : s \in {q \in shorter : Len(q) = n - 1}, x \in S}

VARIABLES
    input,          \* the request: caller, processing_method, use_ai, ext
    env,            \* GEMINI_API_KEY set, Tesseract reachable
    pc,             \* position of control
    fs,             \* files that exist: "input", "upload_tmp", "page_tmp"
    file_path,      \* the path handed to process_invoice_end_to_end
    result,         \* the orchestrator's result dict (empty before line 25)
    ai_processor,   \* None, "processor", or "unset" before create_ai_processor
    ai_result,      \* the dict the AI strategy returned (empty before it returns)
    ai,             \* locals of the AI strategy
    extracted_text, \* what process_file returned (meaningful once "ocr" is called)
    called,         \* the strategy entry points invoked so far, in order
    raised,         \* exceptions raised so far, by the place that raised them
    http,           \* what process_invoice_api handed back: status and body
    ocr,            \* locals of extract_text_from_pdf: rasterizer attempts, pages
    nlp,            \* the findall table of the text and the records returned for it
    conc            \* two concurrent runs and the state they can share

vars == <<input, env, pc, fs, file_path, result, ai_processor, ai_result, ai,
          extracted_text, called, raised, http, ocr, nlp, conc>>

EmptyDict == [k \in {} |-> None]
NoAi == [image_path |-> "", in_pdf |-> FALSE, attempts |-> <<>>, converted |-> FALSE,
         doc_pages |-> 0, pages |-> 0, response_text |-> <<>>]
NoHttp == [status |-> 0, body |-> EmptyDict]
NoOcr == [rasterized |-> FALSE, attempts |-> <<>>, first_ok |-> FALSE,
          retry_ok |-> FALSE, pages |-> <<>>]
NoNlp == [m |-> EmptyDict, returned |-> <<>>]
NoConc == EmptyDict

Init ==
    /\ input \in [caller : {"api", "direct"}, processing_method : Methods,
                  use_ai : BOOLEAN, ext : Exts, exists : BOOLEAN]
    \* a direct caller passes use_ai itself and has no processing_method form
    \* field; the HTTP caller passes processing_method and uploads the bytes
    /\ input.caller = "direct" => input.processing_method = "ai"
    /\ input.caller = "api" => (input.use_ai /\ input.exists)
    /\ env \in [api_key : BOOLEAN, tesseract : BOOLEAN]
    /\ pc = IF input.caller = "api" THEN "api_validate" ELSE "start"
    /\ fs = IF input.caller = "direct" /\ input.exists THEN {"input"} ELSE {}
    /\ file_path = IF input.caller = "direct" THEN "input" ELSE ""
    /\ result = EmptyDict
    /\ ai_processor = "unset"
    /\ ai_result = EmptyDict
    /\ ai = NoAi
    /\ extracted_text = <<>>
    /\ called = <<>>
    /\ raised = <<>>
    /\ http = NoHttp
    /\ ocr = NoOcr
    /\ nlp = NoNlp
    /\ conc = NoConc

\* The value of use_ai inside process_invoice_end_to_end.
use_ai == IF input.caller = "api" THEN input.processing_method = "ai" ELSE input.use_ai

file_extension == input.ext

\* ------------------------------------------------- process_invoice_end_to_end
DefaultExtractedData ==
    [vendor_name |-> Null, vendor_email |-> Null, vendor_phone |-> Null,
     invoice_number |-> Null, invoice_date |-> Null, po_number |-> Null,
     vat_number |-> Null, total_amount |-> Null, subtotal |-> Null,
     tax_amount |-> Null, payment_terms |-> Null, dates_found |-> <<>>]

InitialResult ==
    [success |-> FALSE,
     filename |-> file_path,
     file_size_bytes |-> IF file_path \in fs THEN "size" ELSE "0",
     file_type |-> FileType(file_extension),
     processing_method |-> "unknown",
     processing_timestamp |-> "now",
     extracted_data |-> DefaultExtractedData,
     confidence_scores |-> [overall |-> Null, text_quality |-> Null,
                            data_completeness |-> Null]]

\* lines 19-54: build the result dict, enter the try block, test use_ai
Start ==
    /\ pc = "start"
    /\ result' = InitialResult
    /\ pc' = IF use_ai THEN "create_ai" ELSE "ocr"
    /\ UNCHANGED <<input, env, fs, file_path, ai_processor, ai_result, ai,
                   extracted_text, called, raised, http>>
    /\ UNCHANGED <<ocr, nlp, conc>>

Has(s, e) == \E i \in 1..Len(s) : s[i] = e

\* ------------------------------------------------------------ ai_processor.py
AiMethod == "AI (Google Gemini)"
ParseErrorPrefix == "AI response parsing error"
ProcessingErrorPrefix == "AI processing error"
PdfErrorPrefix == "PDF processing error"

\* the three failure dicts of the AI strategy (lines 116-128 and 184-189)
AiFailure(prefix, detail) ==
    [success |-> FALSE, method |-> AiMethod,
     error |-> [prefix |-> prefix, detail |-> detail]]

\* a plausible slip: the parse failure is reported like any other failure
JsonDecodeHandler_Generic(detail) == AiFailure(ProcessingErrorPrefix, detail)

\* lines 116-121: the handler of json.JSONDecodeError
JsonDecodeHandler(detail) == AiFailure(ParseErrorPrefix, detail)

\* lines 123-128: the handler of every other exception
ImageExceptHandler(detail) == AiFailure(ProcessingErrorPrefix, detail)

\* lines 184-189: the handler around process_pdf_with_ai
PdfExceptHandler(detail) == AiFailure(PdfErrorPrefix, detail)

\* lines 160-165
NoPagesResult ==
    [success |-> FALSE, method |-> AiMethod,
     error |-> [prefix |-> "Could not convert PDF to image", detail |-> ""]]

\* lines 104-114
AiSuccess(extracted_data, response_text) ==
    [success |-> TRUE, method |-> AiMethod, extracted_data |-> extracted_data,
     confidence |-> "high",
     debug_info |-> [image_size |-> "size", image_mode |-> "mode",
                     response_length |-> Len(response_text)]]

\* Replies of the hosted model.  The members of a JSON object are one token
\* naming the record they decode to; every other character is itself.
\* Backtick stands for the grave accent, which a TLA+ string cannot hold.
Backtick == "~"
Fence == <<Backtick, Backtick, Backtick>>
FenceJson == Fence \o <<"j", "s", "o", "n">>
PayloadNames == {"members:null", "members:full", "members:other"}
Payload(name) ==
    CASE name = "members:null" -> DefaultExtractedData
      [] name = "members:full" ->
            [vendor_name |-> <<"A", "C", "M", "E">>,
             vendor_email |-> <<"a", "@", "b", ".", "c", "o">>,
             vendor_phone |-> <<"+", "1", " ", "5", "5", "5">>,
             invoice_number |-> <<"I", "N", "V", "-", "1">>,
             invoice_date |-> <<"2", "0", "2", "4", "-", "0", "1", "-", "1", "5">>,
             po_number |-> <<"P", "O", "-", "1">>,
             vat_number |-> <<"V", "A", "T", "-", "1">>,
             total_amount |-> <<"$", "1", ".", "0", "0">>,
             subtotal |-> <<"$", "0", ".", "9", "0">>,
             tax_amount |-> <<"$", "0", ".", "1", "0">>,
             payment_terms |-> <<"N", "e", "t", " ", "3", "0">>,
             dates_found |-> <<<<"2", "0", "2", "4", "-", "0", "1", "-", "1", "5">>>>]
      [] OTHER -> [message |-> <<"n", "/", "a">>]
JsonObject(name) == <<"{", name, "}">>
Replies ==
    UNION {{JsonObject(n),
            <<" ">> \o JsonObject(n) \o <<"\n">>,
            FenceJson \o <<"\n">> \o JsonObject(n) \o <<"\n">> \o Fence,
            Fence \o <<"\n">> \o JsonObject(n) \o <<"\n">> \o Fence,
            FenceJson \o <<"\n">> \o JsonObject(n)} : n \in PayloadNames}
    \cup {<<"S", "o", "r", "r", "y">>, <<>>}

\* lines 94-98: strip the markdown fence
StripFence(response_text) ==
    IF StartsWith(response_text, FenceJson) THEN Slice(response_text, 7, 3)
    ELSE IF StartsWith(response_text, Fence) THEN Slice(response_text, 3, 3)
    ELSE response_text

\* json.loads: surrounding whitespace is skipped, the rest must be one value
JsonLoads(text) ==
    LET t == Strip(text) IN
    IF Len(t) = 3 /\ t[1] = "{" /\ t[3] = "}" /\ t[2] \in PayloadNames
    THEN [ok |-> TRUE, value |-> Payload(t[2])]
    ELSE [ok |-> FALSE, value |-> EmptyDict]

\* lines 100-121: parse the stripped reply and build the strategy's result
ParseReply(response_text) ==
    LET stripped == StripFence(response_text)
        parsed == JsonLoads(stripped)
    IN IF parsed.ok THEN AiSuccess(parsed.value, stripped)
       ELSE JsonDecodeHandler("JSONDecodeError")

\* a plausible slip: the processor is built whether or not a key is set
create_ai_processor_NoKeyCheck(api_key, configured) ==
    IF configured THEN "processor" ELSE "raise"

\* ai_processor.py lines 191-196 with 8-11: no key gives None; with a key the
\* client is configured, which is a library call that may raise
create_ai_processor(api_key, configured) ==
    IF ~api_key THEN None
    ELSE IF configured THEN "processor" ELSE "raise"

\* process_invoice.py lines 56-58 and 80-81
CreateAiProcessor ==
    /\ pc = "create_ai"
    /\ called' = Append(called, "create_ai_processor")
    /\ \E configured \in BOOLEAN :
         LET made == create_ai_processor(env.api_key, configured) IN
         IF made = "raise"
         THEN /\ raised' = Append(raised, "GeminiInvoiceProcessor.__init__")
              /\ pc' = "except"
              /\ UNCHANGED ai_processor
         ELSE /\ ai_processor' = made
              /\ pc' = IF made = None THEN "ocr" ELSE "ai_dispatch"
              /\ UNCHANGED raised
    /\ UNCHANGED <<input, env, fs, file_path, result, ai_result, ai,
                   extracted_text, http>>
    /\ UNCHANGED <<ocr, nlp, conc>>

\* process_invoice.py lines 59-64: choose the PDF or the image entry point
AiDispatch ==
    /\ pc = "ai_dispatch"
    /\ called' = Append(called, "ai")
    /\ IF file_extension = ".pdf"
       THEN pc' = "pdf_convert" /\ ai' = NoAi
       ELSE pc' = "img_open" /\ ai' = [NoAi EXCEPT !.image_path = file_path]
    /\ UNCHANGED <<input, env, fs, file_path, result, ai_processor, ai_result,
                   extracted_text, raised, http>>
    /\ UNCHANGED <<ocr, nlp, conc>>

\* the strategy hands its dict back to line 62/64 of the orchestrator
AiReturn(r) == ai_result' = r /\ pc' = "ai_result"

\* ai_processor.py lines 142-158: first_page=1, last_page=1 on both attempts,
\* so the page list holds the first page of the document and nothing else
convert_first_page_All(doc_pages) == doc_pages
convert_first_page(doc_pages) == IF doc_pages >= 1 THEN 1 ELSE 0

\* ai_processor.py lines 131-158: os.path.getsize, then rasterize page 1 at
\* 300 DPI and, when that raises, once more at 200 DPI
PdfConvert ==
    /\ pc = "pdf_convert"
    /\ IF file_path \notin fs
       THEN /\ AiReturn(PdfExceptHandler("getsize"))
            /\ raised' = Append(raised, "process_pdf_with_ai")
            /\ UNCHANGED ai
       ELSE \E first \in {"raise", "ok"}, second \in {"raise", "ok"},
               doc_pages \in 0..MaxPages :
              /\ first = "ok" => second = "ok"
              /\ IF first = "raise" /\ second = "raise"
                 THEN /\ AiReturn(PdfExceptHandler("convert_from_path"))
                      /\ raised' = Append(raised, "process_pdf_with_ai")
                      /\ ai' = [ai EXCEPT !.attempts = <<300, 200>>]
                 ELSE /\ ai' = [ai EXCEPT !.attempts = IF first = "ok" THEN <<300>>
                                                       ELSE <<300, 200>>,
                                          !.converted = TRUE,
                                          !.doc_pages = doc_pages,
                                          !.pages = convert_first_page(doc_pages)]
                      /\ pc' = "pdf_temp"
                      /\ UNCHANGED <<ai_result, raised>>
    /\ UNCHANGED <<input, env, fs, file_path, result, ai_processor,
                   extracted_text, called, http>>
    /\ UNCHANGED <<ocr, nlp, conc>>

\* ai_processor.py lines 160-174: no page is a failure; otherwise create the
\* scratch image and save the page into it.  The save is outside the
\* try/finally of lines 176-182.
PdfTemp ==
    /\ pc = "pdf_temp"
    /\ IF ai.pages = 0
       THEN /\ AiReturn(NoPagesResult)
            /\ UNCHANGED <<fs, ai, raised>>
       ELSE /\ fs' = fs \cup {"page_tmp"}
            /\ \E saved \in BOOLEAN :
                 IF saved
                 THEN /\ ai' = [ai EXCEPT !.image_path = "page_tmp", !.in_pdf = TRUE]
                      /\ pc' = "img_open"
                      /\ UNCHANGED <<ai_result, raised>>
                 ELSE /\ AiReturn(PdfExceptHandler("save"))
                      /\ raised' = Append(raised, "process_pdf_with_ai")
                      /\ UNCHANGED ai
    /\ UNCHANGED <<input, env, file_path, result, ai_processor,
                   extracted_text, called, http>>
    /\ UNCHANGED <<ocr, nlp, conc>>

\* process_image_with_ai returns r: to the finally block of the PDF entry
\* point, or to the orchestrator
ImageReturn(r) ==
    /\ ai_result' = r
    /\ pc' = IF ai.in_pdf THEN "pdf_finally" ELSE "ai_result"

\* ai_processor.py lines 57-64: os.path.getsize and Image.open
ImgOpen ==
    /\ pc = "img_open"
    /\ \E opened \in BOOLEAN :
         IF ai.image_path \in fs /\ opened
         THEN pc' = "img_request" /\ UNCHANGED <<ai_result, raised>>
         ELSE /\ ImageReturn(ImageExceptHandler("open"))
              /\ raised' = Append(raised, "process_image_with_ai")
    /\ UNCHANGED <<input, env, fs, file_path, result, ai_processor, ai,
                   extracted_text, called, http>>
    /\ UNCHANGED <<ocr, nlp, conc>>

\* ai_processor.py lines 66-92: the request to the hosted model; the call or
\* the read of response.text may raise
ImgRequest ==
    /\ pc = "img_request"
    /\ \/ /\ ImageReturn(ImageExceptHandler("generate_content"))
          /\ raised' = Append(raised, "process_image_with_ai")
          /\ UNCHANGED ai
       \/ \E reply \in Replies :
            /\ ai' = [ai EXCEPT !.response_text = Strip(reply)]
            /\ pc' = "img_parse"
            /\ UNCHANGED <<ai_result, raised>>
    /\ UNCHANGED <<input, env, fs, file_path, result, ai_processor,
                   extracted_text, called, http>>
    /\ UNCHANGED <<ocr, nlp, conc>>

\* ai_processor.py lines 94-121
ImgParse ==
    /\ pc = "img_parse"
    /\ ImageReturn(ParseReply(ai.response_text))
    /\ raised' = IF ParseReply(ai.response_text).success THEN raised
                 ELSE Append(raised, "json.loads")
    /\ UNCHANGED <<input, env, fs, file_path, result, ai_processor, ai,
                   extracted_text, called, http>>
    /\ UNCHANGED <<ocr, nlp, conc>>

\* ai_processor.py lines 176-182: the finally block removes the scratch image
PdfFinally ==
    /\ pc = "pdf_finally"
    /\ fs' = fs \ {ai.image_path}
    /\ pc' = "ai_result"
    /\ UNCHANGED <<input, env, file_path, result, ai_processor, ai_result, ai,
                   extracted_text, called, raised, http>>
    /\ UNCHANGED <<ocr, nlp, conc>>

\* ---------------------------------------------------------------------- ocr.py
NotFoundText == <<"E", "r", "r", "o", "r", ":", " ", "F", "i", "l", "e", " ", "n", "o", "t", " ", "f", "o", "u", "n", "d">>
UnsupportedText(ext) ==
    <<"E", "r", "r", "o", "r", ":", " ", "U", "n", "s", "u", "p", "p", "o", "r", "t", "e", "d", " ", "f", "i", "l", "e", " ", "t", "y", "p", "e", " ", "'">>
    \o ExtChars(ext) \o
    <<"'", ".", " ", "S", "u", "p", "p", "o", "r", "t", "e", "d", " ", "f", "o", "r", "m", "a", "t", "s", ":", " ", "P", "D", "F", ",", " ", "J", "P", "G", ",", " ", "J", "P", "E", "G", ",", " ", "P", "N", "G", ",", " ", "T", "I", "F", "F", ",", " ", "B", "M", "P", ",", " ", "W", "e", "b", "P">>

PageMarker(page_num) == <<"-", "-", "-", " ", "P", "a", "g", "e", " ">> \o <<Digit(page_num)>> \o <<" ", "-", "-", "-", "\n">>

\* lines 123-140: the marker and the stripped text of every page whose text
\* is not blank, joined by an empty line
RECURSIVE PageEntries(_, _)
PageEntries(pages, page_num) ==
    IF page_num > Len(pages) THEN <<>>
    ELSE LET page_text == pages[page_num]
             rest == PageEntries(pages, page_num + 1)
         IN IF Strip(page_text) # <<>>
            THEN <<PageMarker(page_num) \o Strip(page_text)>> \o rest
            ELSE rest

PdfText(pages) == Join(<<"\n", "\n">>, PageEntries(pages, 1))

\* a plausible slip: a marker is emitted for a document without pages
extract_text_from_pdf_BlankPage(converted, pages, recognised, tesseract) ==
    IF ~converted THEN <<>>
    ELSE IF pages = <<>> THEN PageMarker(1)
    ELSE IF ~(tesseract /\ recognised) THEN <<>>
    ELSE PdfText(pages)

\* lines 115-144: pages is what convert_from_path(dpi=300) produced; recognition
\* raises when Tesseract is missing, and every exception is turned into ""
extract_text_from_pdf(converted, pages, recognised, tesseract) ==
    IF ~converted THEN <<>>
    ELSE IF pages # <<>> /\ ~(tesseract /\ recognised) THEN <<>>
    ELSE PdfText(pages)

\* lines 53-92: "" when Tesseract is not configured or any step raises,
\* otherwise the stripped engine output
extract_text_from_image(tesseract, recognised, text) ==
    IF ~tesseract THEN <<>>
    ELSE IF ~recognised THEN <<>>
    ELSE Strip(text)

\* lines 146-176: dispatch on existence and extension
process_file(exists, ext, tesseract, converted, pages, recognised, text) ==
    IF ~exists THEN NotFoundText
    ELSE IF ext = ".pdf" THEN extract_text_from_pdf(converted, pages, recognised, tesseract)
    ELSE IF ext \in image_extensions THEN extract_text_from_image(tesseract, recognised, text)
    ELSE UnsupportedText(ext)

\* --------------------------------------------------------------- nlp_parser.py
\* What re.findall returns for the patterns of lines 35-93, per field and per
\* pattern in list order.  The regex engine is a library: its answer for the
\* text is one of these tables.
NoMatches ==
    [vendor_name |-> <<<<>>, <<>>, <<>>, <<>>, <<>>>>,
     vendor_email |-> <<<<>>, <<>>, <<>>>>,
     vendor_phone |-> <<<<>>, <<>>, <<>>, <<>>>>,
     invoice_number |-> <<<<>>, <<>>, <<>>, <<>>, <<>>>>,
     customer_number |-> <<<<>>, <<>>, <<>>>>,
     vat_number |-> <<<<>>, <<>>, <<>>, <<>>>>,
     total_amount |-> <<<<>>, <<>>, <<>>, <<>>, <<>>>>,
     dates |-> <<<<>>, <<>>, <<>>, <<>>, <<>>>>]

\* the table of "Invoice Number: INV-2024-001\nTotal: $1,234.56\nDate: 01/15/2024"
ScenarioAMatches ==
    [NoMatches EXCEPT
       !.vendor_name = <<<<<<"I", "n", "v", "o", "i", "c", "e", " ", "N", "u", "m", "b", "e", "r">>>>, <<>>, <<>>, <<>>, <<>>>>,
       !.invoice_number = <<<<<<"I", "N", "V", "-", "2", "0", "2", "4", "-", "0", "0", "1">>>>,
                            <<<<"N", "u", "m", "b", "e", "r">>>>,
                            <<<<"2", "0", "2", "4">>>>, <<>>, <<>>>>,
       !.total_amount = <<<<<<"1", ",", "2", "3", "4", ".", "5", "6">>>>, <<>>, <<>>, <<>>, <<>>>>,
       !.dates = <<<<<<"0", "1", "/", "1", "5", "/", "2", "0", "2", "4">>>>, <<>>, <<>>,
                   <<<<"0", "1", "/", "1", "5", "/", "2", "0">>>>, <<>>>>]

\* the table of "1.2.2024 and 3/4/2024": the first date is found by two patterns
TwoFormatsMatches ==
    [NoMatches EXCEPT
       !.dates = <<<<<<"1", ".", "2", ".", "2", "0", "2", "4">>, <<"3", "/", "4", "/", "2", "0", "2", "4">>>>, <<>>, <<>>, <<>>, <<<<"1", ".", "2", ".", "2", "0", "2", "4">>>>>>]

\* the table of "Invoice Total From: Acme Supplies Ltd"
VendorFilterMatches ==
    [NoMatches EXCEPT
       !.vendor_name = <<<<<<"I", "n", "v", "o", "i", "c", "e", " ", "T", "o", "t", "a", "l", " ", "F", "r", "o", "m">>>>, <<<<"A", "c", "m", "e", " ", "S", "u", "p", "p", "l", "i", "e", "s", " ", "L", "t", "d">>>>, <<>>, <<>>, <<>>>>,
       !.invoice_number = <<<<>>, <<<<"T", "o", "t", "a", "l">>>>, <<>>, <<>>, <<>>>>]

\* the table of "Tel: 555-123-4567 Amount Due: 1,000 Total 20.5"
PhoneAmountMatches ==
    [NoMatches EXCEPT
       !.vendor_phone = <<<<<<"5", "5", "5", "-", "1", "2", "3", "-", "4", "5", "6", "7", " ">>>>, <<>>, <<>>, <<<<"5", "5", "5", "-", "1", "2", "3", "-", "4", "5", "6", "7">>>>>>,
       !.total_amount = <<<<<<"2", "0", ".", "5">>>>, <<<<"1", ",", "0", "0", "0">>>>, <<>>, <<>>, <<>>>>]

\* the table of "1/1/21 1/2/21 1/3/21 1/4/21 1/5/21 1/6/21 1/1/21"
SixDatesMatches ==
    [NoMatches EXCEPT
       !.dates = <<<<<<"1", "/", "1", "/", "2", "1">>, <<"1", "/", "2", "/", "2", "1">>, <<"1", "/", "3", "/", "2", "1">>, <<"1", "/", "4", "/", "2", "1">>, <<"1", "/", "5", "/", "2", "1">>, <<"1", "/", "6", "/", "2", "1">>, <<"1", "/", "1", "/", "2", "1">>>>, <<>>, <<>>, <<>>, <<>>>>]

MatchTables ==
    {NoMatches, ScenarioAMatches, TwoFormatsMatches, VendorFilterMatches, PhoneAmountMatches}

\* the tables of the texts the extractor is exercised on by itself
ParserTables == MatchTables \cup {SixDatesMatches}

Contains(s, sub) ==
    \E i \in 1..(Len(s) - Len(sub) + 1) : SubSeq(s, i, i + Len(sub) - 1) = sub

RECURSIVE Remove(_, _)
Remove(s, c) ==
    IF s = <<>> THEN <<>>
    ELSE IF Head(s) = c THEN Remove(Tail(s), c) ELSE <<Head(s)>> \o Remove(Tail(s), c)

Digits == {"0", "1", "2", "3", "4", "5", "6", "7", "8", "9"}

\* lines 105-109: the false-positive filter of the vendor name
VendorAccepts(match) ==
    /\ Len(match) > 5
    /\ ~Contains(match, <<"P", "a", "g", "e">>)
    /\ ~Contains(match, <<"I", "n", "v", "o", "i", "c", "e">>)
    /\ ~Contains(match, <<"T", "o", "t", "a", "l">>)
    /\ ~(match # <<>> /\ Head(match) \in Digits)

\* lines 103-111: the first match of one pattern that passes the filter
RECURSIVE VendorPick(_)
VendorPick(matches) ==
    IF matches = <<>> THEN Null
    ELSE IF VendorAccepts(Strip(Head(matches))) THEN Strip(Head(matches))
    ELSE VendorPick(Tail(matches))

\* lines 99-113: patterns in order, stop at the first that yields a name
RECURSIVE VendorName(_)
VendorName(per_pattern) ==
    IF per_pattern = <<>> THEN Null
    ELSE IF VendorPick(Head(per_pattern)) # Null THEN VendorPick(Head(per_pattern))
    ELSE VendorName(Tail(per_pattern))

\* lines 116-148: matches[0] of the first pattern with a match
RECURSIVE FirstMatch(_)
FirstMatch(per_pattern) ==
    IF per_pattern = <<>> THEN Null
    ELSE IF Head(per_pattern) # <<>> THEN Head(per_pattern)[1]
    ELSE FirstMatch(Tail(per_pattern))

StripOrNull(v) == IF v = Null THEN Null ELSE Strip(v)

\* lines 150-157
TotalAmount(per_pattern) ==
    IF FirstMatch(per_pattern) = Null THEN Null
    ELSE <<"$">> \o Remove(FirstMatch(per_pattern), ",")

\* lines 160-163: the matches of all date patterns, in pattern order
RECURSIVE AllDates(_)
AllDates(per_pattern) ==
    IF per_pattern = <<>> THEN <<>>
    ELSE Head(per_pattern) \o AllDates(Tail(per_pattern))

Range(s) == {s[i] : i \in 1..Len(s)}

\* list(set(all_dates)): the members in an order the hash seed decides
RECURSIVE Orders(_)
Orders(S) ==
    IF S = {} THEN {<<>>}
    ELSE UNION {{<<x>> \o o : o \in Orders(S \ {x})} : x \in S}

\* a plausible slip: the slice of line 167 is left out
Prefix_NoLimit(s, n) == s
Prefix(s, n) == SubSeq(s, 1, IF Len(s) < n THEN Len(s) ELSE n)

\* a plausible slip: the record starts with a default currency
EmptyRecord_DefaultCurrency ==
    [vendor_name |-> Null, vendor_email |-> Null, vendor_phone |-> Null,
     vendor_address |-> Null, invoice_number |-> Null, invoice_date |-> Null,
     due_date |-> Null, customer_name |-> Null, customer_number |-> Null,
     vat_number |-> Null, total_amount |-> Null, subtotal |-> Null,
     tax_amount |-> Null, currency |-> <<"U", "S", "D">>, payment_terms |-> Null,
     description |-> Null, dates_found |-> <<>>]

\* lines 13-32
EmptyRecord ==
    [vendor_name |-> Null, vendor_email |-> Null, vendor_phone |-> Null,
     vendor_address |-> Null, invoice_number |-> Null, invoice_date |-> Null,
     due_date |-> Null, customer_name |-> Null, customer_number |-> Null,
     vat_number |-> Null, total_amount |-> Null, subtotal |-> Null,
     tax_amount |-> Null, currency |-> Null, payment_terms |-> Null,
     description |-> Null, dates_found |-> <<>>]

\* a plausible slip: the loops have no break, so the last pattern with a match wins
extract_structured_data_LastPattern(m, unique_dates) ==
    LET LastMatch(per_pattern) ==
            LET matching == {i \in 1..Len(per_pattern) : per_pattern[i] # <<>>}
            IN IF matching = {} THEN Null
               ELSE per_pattern[CHOOSE i \in matching : \A j \in matching : j <= i][1]
    IN [EmptyRecord EXCEPT
          !.vendor_name = VendorName(m.vendor_name),
          !.vendor_email = LastMatch(m.vendor_email),
          !.vendor_phone = StripOrNull(LastMatch(m.vendor_phone)),
          !.invoice_number = StripOrNull(LastMatch(m.invoice_number)),
          !.customer_number = StripOrNull(LastMatch(m.customer_number)),
          !.vat_number = StripOrNull(LastMatch(m.vat_number)),
          !.total_amount = IF LastMatch(m.total_amount) = Null THEN Null
                           ELSE <<"$">> \o Remove(LastMatch(m.total_amount), ","),
          !.dates_found = Prefix(unique_dates, MaxDates)]

\* lines 4-169; m is the findall table of the text, unique_dates the list the
\* set of dates was turned into
extract_structured_data(m, unique_dates) ==
    [EmptyRecord EXCEPT
       !.vendor_name = VendorName(m.vendor_name),
       !.vendor_email = FirstMatch(m.vendor_email),
       !.vendor_phone = StripOrNull(FirstMatch(m.vendor_phone)),
       !.invoice_number = StripOrNull(FirstMatch(m.invoice_number)),
       !.customer_number = StripOrNull(FirstMatch(m.customer_number)),
       !.vat_number = StripOrNull(FirstMatch(m.vat_number)),
       !.total_amount = TotalAmount(m.total_amount),
       !.dates_found = Prefix(unique_dates, MaxDates)]

\* lines 171-222
parse_invoice_text(text, m, unique_dates) ==
    IF text = <<>> \/ Len(Strip(text)) < MinTextLen
    THEN Update(EmptyRecord, [error |-> <<"T", "e", "x", "t", " ", "t", "o", "o", " ", "s", "h", "o", "r", "t", " ", "o", "r", " ", "e", "m", "p", "t", "y", " ", "f", "o", "r", " ", "p", "r", "o", "c", "e", "s", "s", "i", "n", "g">>])
    ELSE extract_structured_data(m, unique_dates)

\* ------------------------------------------- process_invoice_end_to_end, cont.
\* where control goes when process_invoice_end_to_end returns
ReturnPc == IF input.caller = "api" THEN "api_respond" ELSE "done"

\* lines 67-73
AiSuccessUpdate(res, air) ==
    Update(res, [success |-> TRUE,
                 processing_method |-> "AI (Google Gemini)",
                 extracted_data |-> Get(air, "extracted_data", res.extracted_data),
                 confidence |-> Get(air, "confidence", "high"),
                 ai_processing |-> TRUE])

\* a plausible slip: success is judged by the completeness of the record
AiAccepted_Complete(air) ==
    Get(air, "success", FALSE) /\ air.extracted_data # DefaultExtractedData

\* a plausible slip: the strategy's dict is accepted whenever one came back
AiAccepted_Always(air) == TRUE

\* line 66: does the run end with the AI strategy's result
AiAccepted(air) == Get(air, "success", FALSE)

\* lines 66-79: return on success, fall through to OCR otherwise
AiResult ==
    /\ pc = "ai_result"
    /\ IF AiAccepted(ai_result)
       THEN /\ result' = AiSuccessUpdate(result, ai_result)
            /\ pc' = ReturnPc
       ELSE /\ pc' = "ocr"
            /\ UNCHANGED result
    /\ UNCHANGED <<input, env, fs, file_path, ai_processor, ai_result, ai,
                   extracted_text, called, raised, http>>
    /\ UNCHANGED <<ocr, nlp, conc>>

\* lines 83-87: the call of ocr.process_file
Ocr ==
    /\ pc = "ocr"
    /\ called' = Append(called, "ocr")
    /\ \E first_ok \in BOOLEAN, retry_ok \in BOOLEAN, recognised \in BOOLEAN,
          pages \in SeqsUpTo(PageTexts, MaxPages), text \in EngineTexts :
         /\ first_ok => retry_ok
         /\ extracted_text' = process_file(file_path \in fs, file_extension, env.tesseract,
                                           first_ok, pages, recognised, text)
         /\ ocr' = IF file_path \in fs /\ file_extension = ".pdf"
                   THEN [rasterized |-> TRUE, attempts |-> <<300>>,
                         first_ok |-> first_ok, retry_ok |-> retry_ok,
                         pages |-> IF first_ok THEN pages ELSE <<>>]
                   ELSE NoOcr
    /\ pc' = "ocr_check"
    /\ UNCHANGED <<input, env, fs, file_path, result, ai_processor, ai_result, ai,
                   raised, http>>
    /\ UNCHANGED <<nlp, conc>>

\* a plausible slip: only the empty text is rejected
TooShort_NoLength(text) == text = <<>>

\* a plausible slip: the threshold is off by one
TooShort_OffByOne(text) == text = <<>> \/ Len(Strip(text)) <= MinTextLen

\* line 89
TooShort(text) == text = <<>> \/ Len(Strip(text)) < MinTextLen

\* a plausible slip: the failure update leaves the tag of line 29 in place
OcrFailureUpdate_NoTag(res) ==
    Update(res, [success |-> FALSE,
                 error |-> [prefix |-> "Could not extract meaningful text from document",
                            detail |-> ""],
                 ai_processing |-> FALSE])

\* lines 90-95
OcrFailureUpdate(res) ==
    Update(res, [success |-> FALSE,
                 processing_method |-> "Traditional OCR",
                 error |-> [prefix |-> "Could not extract meaningful text from document",
                            detail |-> ""],
                 ai_processing |-> FALSE])

\* lines 89-96
OcrCheck ==
    /\ pc = "ocr_check"
    /\ IF TooShort(extracted_text)
       THEN /\ result' = OcrFailureUpdate(result)
            /\ pc' = ReturnPc
       ELSE /\ pc' = "parse"
            /\ UNCHANGED result
    /\ UNCHANGED <<input, env, fs, file_path, ai_processor, ai_result, ai,
                   extracted_text, called, raised, http>>
    /\ UNCHANGED <<ocr, nlp, conc>>

\* lines 102-109
OcrSuccessUpdate(res, parsed_data, text) ==
    Update(res, [success |-> TRUE,
                 processing_method |-> "Traditional OCR + NLP",
                 extracted_data |-> parsed_data,
                 confidence |-> "medium",
                 extracted_text_length |-> Len(text),
                 ai_processing |-> FALSE])

\* lines 98-112
Parse ==
    /\ pc = "parse"
    /\ called' = Append(called, "parse")
    /\ \E m \in MatchTables : \E unique_dates \in Orders(Range(AllDates(m.dates))) :
         LET parsed_data == parse_invoice_text(extracted_text, m, unique_dates)
         IN /\ result' = OcrSuccessUpdate(result, parsed_data, extracted_text)
            /\ nlp' = [m |-> m, returned |-> Append(nlp.returned, parsed_data)]
    /\ pc' = ReturnPc
    /\ UNCHANGED <<input, env, fs, file_path, ai_processor, ai_result, ai,
                   extracted_text, raised, http>>
    /\ UNCHANGED <<ocr, conc>>

\* a plausible slip: the outer handler names a narrower exception class
OuterCatches_Narrow(site) == site # "GeminiInvoiceProcessor.__init__"

\* line 114: the exceptions the outer handler catches
OuterCatches(site) == TRUE

\* a plausible slip: the last-resort envelope carries no error text
ExceptUpdate_NoError(res, site) ==
    Update(res, [success |-> FALSE, processing_method |-> "Error",
                 ai_processing |-> use_ai])

\* lines 115-120
ExceptUpdate(res, site) ==
    Update(res, [success |-> FALSE,
                 processing_method |-> "Error",
                 error |-> [prefix |-> "Processing failed", detail |-> site],
                 ai_processing |-> use_ai])

\* lines 114-123
Except ==
    /\ pc = "except"
    /\ IF OuterCatches(raised[Len(raised)])
       THEN /\ result' = ExceptUpdate(result, raised[Len(raised)])
            /\ pc' = ReturnPc
       ELSE /\ pc' = "propagated"
            /\ UNCHANGED result
    /\ UNCHANGED <<input, env, fs, file_path, ai_processor, ai_result, ai,
                   extracted_text, called, raised, http>>
    /\ UNCHANGED <<ocr, nlp, conc>>

\* ---------------------------------------------------------------------- app.py
\* lines 77-100: reject a bad processing_method, a bad extension, a big upload
ApiValidate ==
    /\ pc = "api_validate"
    /\ \E too_large \in BOOLEAN :
         IF \/ input.processing_method \notin {"ai", "traditional"}
            \/ file_extension \notin allowed_extensions
            \/ too_large
         THEN /\ http' = [status |-> 400, body |-> EmptyDict]
              /\ pc' = "api_done"
         ELSE /\ pc' = "api_tempfile"
              /\ UNCHANGED http
    /\ UNCHANGED <<input, env, fs, file_path, result, ai_processor, ai_result, ai,
                   extracted_text, called, raised>>
    /\ UNCHANGED <<ocr, nlp, conc>>

\* lines 102-105: create the upload copy and write the bytes; the write is
\* outside the try/finally of lines 107-134
ApiTempFile ==
    /\ pc = "api_tempfile"
    /\ fs' = fs \cup {"upload_tmp"}
    /\ \E written \in BOOLEAN :
         IF written
         THEN /\ file_path' = "upload_tmp"
              /\ pc' = "start"
              /\ UNCHANGED <<raised, http>>
         ELSE /\ raised' = Append(raised, "process_invoice_api")
              /\ http' = [status |-> 500, body |-> EmptyDict]
              /\ pc' = "api_done"
              /\ UNCHANGED file_path
    /\ UNCHANGED <<input, env, result, ai_processor, ai_result, ai,
                   extracted_text, called>>
    /\ UNCHANGED <<ocr, nlp, conc>>

\* lines 115-121
ApiMetadata ==
    [filename |-> "upload", file_size_bytes |-> "size",
     file_type |-> FileType(file_extension),
     requested_method |-> input.processing_method, timestamp |-> "now"]

\* lines 112-129: add the request metadata and render the response; a
\* rendering error becomes an HTTP 500
ApiRespond ==
    /\ pc = "api_respond"
    /\ result' = Update(result, ApiMetadata)
    /\ \E rendered \in BOOLEAN :
         IF rendered
         THEN /\ http' = [status |-> 200, body |-> result']
              /\ UNCHANGED raised
         ELSE /\ http' = [status |-> 500, body |-> EmptyDict]
              /\ raised' = Append(raised, "JSONResponse")
    /\ pc' = "api_finally"
    /\ UNCHANGED <<input, env, fs, file_path, ai_processor, ai_result, ai,
                   extracted_text, called>>
    /\ UNCHANGED <<ocr, nlp, conc>>

\* lines 131-134
ApiFinally ==
    /\ pc = "api_finally"
    /\ fs' = fs \ {file_path}
    /\ pc' = "api_done"
    /\ UNCHANGED <<input, env, file_path, result, ai_processor, ai_result, ai,
                   extracted_text, called, raised, http>>
    /\ UNCHANGED <<ocr, nlp, conc>>

Next ==
    \/ Start
    \/ CreateAiProcessor
    \/ AiDispatch
    \/ PdfConvert
    \/ PdfTemp
    \/ ImgOpen
    \/ ImgRequest
    \/ ImgParse
    \/ PdfFinally
    \/ AiResult
    \/ Ocr
    \/ OcrCheck
    \/ Parse
    \/ Except
    \/ ApiValidate
    \/ ApiTempFile
    \/ ApiRespond
    \/ ApiFinally

Spec == Init /\ [][Next]_vars

\* ------------------------------------------- the pattern extractor by itself
\* parse_invoice_text is a function of the text alone: it is invoked twice on
\* one text, each invocation possibly in a process of its own, and what it
\* returned is kept in nlp.returned.
ParserTexts == {EngineText(0, MinTextLen - 1, 0), EngineText(0, MinTextLen, 0)}

ParserInit ==
    /\ input = [caller |-> "direct", processing_method |-> "traditional",
                use_ai |-> FALSE, ext |-> ".png", exists |-> TRUE]
    /\ env = [api_key |-> FALSE, tesseract |-> TRUE]
    /\ pc = "nlp_first"
    /\ fs = {}
    /\ file_path = ""
    /\ result = EmptyDict
    /\ ai_processor = None
    /\ ai_result = EmptyDict
    /\ ai = NoAi
    /\ extracted_text \in ParserTexts
    /\ called = <<>>
    /\ raised = <<>>
    /\ http = NoHttp
    /\ ocr = NoOcr
    /\ nlp \in {[m |-> m, returned |-> <<>>] : m \in ParserTables}
    /\ conc = NoConc

\* nlp_parser.py lines 171-201: one invocation on the text
Invoke(at, next) ==
    /\ pc = at
    /\ \E unique_dates \in Orders(Range(AllDates(nlp.m.dates))) :
         nlp' = [nlp EXCEPT !.returned =
                    Append(@, parse_invoice_text(extracted_text, nlp.m, unique_dates))]
    /\ pc' = next
    /\ UNCHANGED <<input, env, fs, file_path, result, ai_processor, ai_result, ai,
                   extracted_text, called, raised, http, ocr, conc>>

InvokeFirst == Invoke("nlp_first", "nlp_second")
InvokeSecond == Invoke("nlp_second", "nlp_done")

ParserNext == InvokeFirst \/ InvokeSecond

ParserSpec == ParserInit /\ [][ParserNext]_vars

\* ------------------------------------------------- two requests at one time
\* Two requests served by one process.  What they can share is the
\* module-level configuration of google.generativeai, written by
\* genai.configure and read when a request is sent, and the directory of
\* scratch files; everything else is local to the call.
Runs == {1, 2}
NoConfig == [writer |-> 0, api_key |-> ""]

ConcInit ==
    /\ input = [caller |-> "api", processing_method |-> "ai",
                use_ai |-> TRUE, ext |-> ".pdf", exists |-> TRUE]
    /\ env = [api_key |-> TRUE, tesseract |-> TRUE]
    /\ pc = "concurrent"
    /\ fs = {}
    /\ file_path = ""
    /\ result = EmptyDict
    /\ ai_processor = None
    /\ ai_result = EmptyDict
    /\ ai = NoAi
    /\ extracted_text = <<>>
    /\ called = <<>>
    /\ raised = <<>>
    /\ http = NoHttp
    /\ ocr = NoOcr
    /\ nlp = NoNlp
    /\ conc \in {[config |-> NoConfig, files |-> {},
                   run |-> [r \in Runs |-> [pc |-> "upload", use_ai |-> u[r],
                                            pdf |-> p[r], read |-> NoConfig]]] :
                     u \in [Runs -> BOOLEAN], p \in [Runs -> BOOLEAN]}

ConcStep(r, at) ==
    /\ conc.run[r].pc = at
    /\ UNCHANGED <<input, env, pc, fs, file_path, result, ai_processor, ai_result, ai,
                   extracted_text, called, raised, http, ocr, nlp>>

\* app.py lines 103-112: a scratch file under a name of its own, then the
\* orchestrator with use_ai
ConcUpload(r) ==
    /\ ConcStep(r, "upload")
    /\ conc' = [conc EXCEPT !.files = @ \cup {<<"upload", r>>},
                            !.run[r].pc = IF conc.run[r].use_ai THEN "configure" ELSE "ocr"]

\* ai_processor.py lines 9-11: genai.configure writes the module-level
\* configuration
ConcConfigure(r) ==
    /\ ConcStep(r, "configure")
    /\ conc' = [conc EXCEPT !.config = [writer |-> r, api_key |-> "GEMINI_API_KEY"],
                            !.run[r].pc = IF conc.run[r].pdf THEN "page" ELSE "request"]

\* ai_processor.py lines 169-174: the page image under a name of its own
ConcPage(r) ==
    /\ ConcStep(r, "page")
    /\ conc' = [conc EXCEPT !.files = @ \cup {<<"page", r>>},
                            !.run[r].pc = "request"]

\* ai_processor.py lines 84-88: generate_content sends the request with the
\* configuration the module holds at that moment
ConcRequest(r) ==
    /\ ConcStep(r, "request")
    /\ conc' = [conc EXCEPT !.run[r].read = conc.config,
                            !.run[r].pc = IF conc.run[r].pdf THEN "unlink_page"
                                          ELSE "unlink_upload"]

\* ai_processor.py lines 179-182
ConcUnlinkPage(r) ==
    /\ ConcStep(r, "unlink_page")
    /\ conc' = [conc EXCEPT !.files = @ \ {<<"page", r>>},
                            !.run[r].pc = "unlink_upload"]

\* process_invoice.py line 87: process_file works on the run's own file
ConcOcr(r) ==
    /\ ConcStep(r, "ocr")
    /\ conc' = [conc EXCEPT !.run[r].pc = "unlink_upload"]

\* app.py lines 131-134
ConcUnlinkUpload(r) ==
    /\ ConcStep(r, "unlink_upload")
    /\ conc' = [conc EXCEPT !.files = @ \ {<<"upload", r>>},
                            !.run[r].pc = "done"]

ConcNext ==
    \E r \in Runs :
       \/ ConcUpload(r)
       \/ ConcConfigure(r)
       \/ ConcPage(r)
       \/ ConcRequest(r)
       \/ ConcUnlinkPage(r)
       \/ ConcOcr(r)
       \/ ConcUnlinkUpload(r)

ConcSpec == ConcInit /\ [][ConcNext]_vars

\* ====================================================================== claims
\* process_invoice_end_to_end has returned its envelope
RunReturned ==
    DOMAIN result # {} /\ pc \in {"done", "api_respond", "api_finally", "api_done"}

AiStrategyReturned == DOMAIN ai_result # {}
AiSucceeded == AiStrategyReturned /\ ai_result.success
AiStrategyFailed == AiStrategyReturned /\ ~ai_result.success
InputPresent == input.caller = "api" \/ input.exists

\* C1: the AI strategy is attempted iff use_ai is true and create_ai_processor
\* returned a processor; with use_ai false or no API key no AI call is ever made
\* and the OCR attempt is the first thing the run does
C1_AiGate ==
    /\ Has(called, "ai") => (use_ai /\ env.api_key /\ ai_processor = "processor")
    /\ (ai_processor = "processor" /\ pc # "ai_dispatch") => Has(called, "ai")
    /\ (~use_ai \/ ~env.api_key) =>
          /\ ~Has(called, "ai")
          /\ pc \notin {"ai_dispatch", "except", "propagated"}
          /\ raised = <<>> \/ pc \in {"api_finally", "api_done"}
          /\ (DOMAIN result # {} /\ pc \notin {"create_ai", "ocr"}) => Has(called, "ocr")

C1_Witness ==
    /\ pc = "done" /\ use_ai /\ ~env.api_key
    /\ called = <<"create_ai_processor", "ocr", "parse">>

\* C2: whenever the AI strategy was requested and failed in any way (the
\* strategy reported a failure, or no processor could be obtained, a failure
\* while configuring the client included), OCR is attempted in the same run
C2_FallbackAlways ==
    (/\ RunReturned
     /\ use_ai
     /\ \/ AiStrategyFailed
        \/ ai_processor = None
        \/ Has(raised, "GeminiInvoiceProcessor.__init__"))
    => Has(called, "ocr")

\* C3: when the AI strategy reports success the run returns at once with
\* success, the AI tag, confidence high and the strategy's record, and neither
\* OCR nor the pattern extractor is invoked, however empty the record is
C3_AiSuccessTerminal ==
    AiSucceeded =>
       /\ ~Has(called, "ocr")
       /\ ~Has(called, "parse")
       /\ pc \in {"pdf_finally", "ai_result"} \/ RunReturned
       /\ RunReturned =>
            /\ result.success
            /\ result.processing_method = "AI (Google Gemini)"
            /\ "confidence" \in DOMAIN result /\ result.confidence = "high"
            /\ result.extracted_data = ai_result.extracted_data

C3_Witness ==
    /\ pc = "done" /\ AiSucceeded
    /\ result.success
    /\ result.extracted_data = DefaultExtractedData

\* C4: when the OCR stage returns fewer than 10 characters (an unreachable OCR
\* engine yields the empty text) the run ends in the "Traditional OCR" failure
\* with the no-meaningful-text error and the all-null default record, and the
\* pattern extractor is not called
C4_ShortTextTerminal ==
    Has(called, "ocr") =>
       /\ (~env.tesseract /\ InputPresent /\ file_extension \in image_extensions \cup {".pdf"})
             => extracted_text = <<>>
       /\ (Len(extracted_text) < MinTextLen /\ pc # "ocr_check") =>
             /\ RunReturned
             /\ ~result.success
             /\ result.processing_method = "Traditional OCR"
             /\ "error" \in DOMAIN result
             /\ result.error.prefix = "Could not extract meaningful text from document"
             /\ result.extracted_data = DefaultExtractedData
             /\ ~Has(called, "parse")

C4_Witness ==
    /\ pc = "done" /\ ~env.tesseract /\ InputPresent /\ file_extension = ".png"
    /\ Has(called, "ocr")
    /\ result.processing_method = "Traditional OCR"

\* C5: when the OCR stage returns at least 10 characters, directly or after an
\* AI failure, the pattern extractor runs and the envelope is a success tagged
\* "Traditional OCR + NLP" with confidence medium and no error field
C5_OcrSuccess ==
    (Has(called, "ocr") /\ Len(extracted_text) >= MinTextLen /\ pc \notin {"ocr_check", "parse"}) =>
       /\ RunReturned
       /\ Has(called, "parse")
       /\ result.success
       /\ result.processing_method = "Traditional OCR + NLP"
       /\ "confidence" \in DOMAIN result /\ result.confidence = "medium"
       /\ "error" \notin DOMAIN result

C5_Witness ==
    /\ pc = "done" /\ AiStrategyFailed
    /\ Len(extracted_text) = MinTextLen
    /\ result.success
    /\ result.extracted_data = EmptyRecord

\* C6 as stated: under the selection that attempts the AI strategy, a failed
\* AI attempt ends the run without an OCR attempt (AI-only)
C6_AiOnlySelectable ==
    (RunReturned /\ use_ai /\ AiStrategyFailed) => ~Has(called, "ocr")

\* C6 amended: the interface selects two behaviours, OCR-only (use_ai false:
\* no AI processor is created and no AI attempt is made) and AI-with-fallback
\* (every run whose AI strategy reported a failure attempts OCR)
C6_TwoBehaviours ==
    /\ ~use_ai => (~Has(called, "ai") /\ ~Has(called, "create_ai_processor"))
    /\ (AiStrategyFailed /\ pc # "ai_result" /\ pc # "pdf_finally") =>
          (Has(called, "ocr") \/ pc = "ocr")

C6_Witness ==
    /\ pc = "api_done" /\ input.processing_method = "ai"
    /\ AiStrategyFailed /\ Has(called, "ocr")
    /\ http.status = 200

\* C7: process_invoice_end_to_end never lets an exception out: an unexpected
\* error in a step yields the envelope with success false, the tag "Error" and
\* an error text
C7_NeverPropagates ==
    /\ pc # "propagated"
    /\ (RunReturned /\ Has(raised, "GeminiInvoiceProcessor.__init__")) =>
          /\ ~result.success
          /\ result.processing_method = "Error"
          /\ "error" \in DOMAIN result
          /\ result.error.prefix = "Processing failed"

C7_Witness ==
    /\ pc = "done" /\ Has(raised, "GeminiInvoiceProcessor.__init__")
    /\ result.processing_method = "Error"

\* C8: in every returned envelope error is present iff success is false,
\* confidence is high exactly after an AI success, medium exactly after an
\* OCR+pattern success and absent on failure, and success, processing_method
\* and extracted_data are present
C8_EnvelopeShape ==
    RunReturned =>
       /\ {"success", "processing_method", "extracted_data"} \subseteq DOMAIN result
       /\ ("error" \in DOMAIN result) <=> ~result.success
       /\ (Get(result, "confidence", "absent") = "high") <=> AiSucceeded
       /\ (Get(result, "confidence", "absent") = "medium") <=> Has(called, "parse")
       /\ ~result.success => "confidence" \notin DOMAIN result
       /\ Get(result, "confidence", "absent") \in {"high", "medium", "absent"}

C8_Witness ==
    /\ pc = "api_done" /\ RunReturned
    /\ ~result.success /\ "confidence" \notin DOMAIN result
    /\ result.processing_method = "Error"

\* C9: no scratch file outlives the function that created it: the page image
\* is gone when process_pdf_with_ai has returned and the upload copy is gone
\* when process_invoice_api has returned
C9_ScratchDeleted ==
    /\ "page_tmp" \in fs => pc \in {"img_open", "img_request", "img_parse", "pdf_finally"}
    /\ "upload_tmp" \in fs => pc # "api_done"

\* C10: the AI strategy never raises; every failure is a dict with success
\* false and the AI method tag, and the response-parse error prefix is
\* reported exactly for a reply that json.loads rejected
C10_AiFailuresStructured ==
    /\ pc = "except" => raised[Len(raised)] \notin
                           {"process_pdf_with_ai", "process_image_with_ai", "json.loads"}
    /\ AiStrategyFailed =>
          /\ ai_result.method = "AI (Google Gemini)"
          /\ "error" \in DOMAIN ai_result
          /\ (ai_result.error.prefix = "AI response parsing error")
                <=> Has(raised, "json.loads")
    /\ (Has(raised, "json.loads") /\ pc # "img_parse") => AiStrategyFailed

C10_Witness ==
    /\ pc = "ai_result" /\ ai.in_pdf /\ "page_tmp" \notin fs
    /\ AiStrategyFailed
    /\ ai_result.error.prefix = "AI response parsing error"

\* C11: an input whose file is missing or whose media type is not supported is
\* rejected before the pipeline is entered: the AI strategy and the pattern
\* extractor are never invoked on it and the run never returns success=true
C11_InputRejected ==
    (~InputPresent \/ file_extension \notin allowed_extensions) =>
       /\ ~Has(called, "ai")
       /\ ~Has(called, "parse")
       /\ RunReturned => ~result.success

\* C12: in every strategy that rasterizes a PDF, when the 300 DPI attempt
\* fails and an attempt at 200 DPI would succeed, the retry is made exactly
\* once, no conversion failure is reported and the strategy goes on with the
\* pages of the retry
C12_RetryOnce ==
    /\ (Len(ai.attempts) > 1 /\ ai.converted) =>
          /\ ai.attempts = <<300, 200>>
          /\ AiStrategyReturned => ai_result # PdfExceptHandler("convert_from_path")
    /\ (ocr.rasterized /\ ~ocr.first_ok /\ ocr.retry_ok) =>
          /\ ocr.attempts = <<300, 200>>
          /\ RunReturned => result.success \/ Has(called, "parse")

AiZeroPages == ai.converted /\ ai.pages = 0 /\ pc # "pdf_temp"
OcrZeroPages == ocr.rasterized /\ ocr.first_ok /\ ocr.pages = <<>>
NoTextError == [prefix |-> "Could not extract meaningful text from document", detail |-> ""]

\* C13 as stated: when rasterization yields no page the run is terminal, its
\* failure envelope reports the conversion failure and no further strategy is
\* attempted after the strategy that met it
C13_ZeroPagesTerminal ==
    /\ AiZeroPages => ~Has(called, "ocr")
    /\ ((AiZeroPages \/ OcrZeroPages) /\ RunReturned) =>
          /\ ~result.success
          /\ "error" \in DOMAIN result
          /\ result.error = NoPagesResult.error

\* C13: when rasterization yields no page, no page is fabricated and the
\* strategy that met it produces no success: the AI strategy returns the
\* failure "Could not convert PDF to image", creates no scratch image, sends no
\* request, and the run goes on to OCR; on the OCR path the text is empty, the
\* pattern extractor is not invoked and the run returns success=false with the
\* tag "Traditional OCR" and the no-meaningful-text error
C13_ZeroPagesFail ==
    /\ AiZeroPages =>
          /\ ai_result = NoPagesResult
          /\ ai.image_path = "" /\ "page_tmp" \notin fs /\ ai.response_text = <<>>
          /\ pc \in {"ai_result", "ocr"} \/ Has(called, "ocr")
    /\ OcrZeroPages =>
          /\ extracted_text = <<>>
          /\ ~Has(called, "parse")
          /\ RunReturned =>
                /\ ~result.success
                /\ result.processing_method = "Traditional OCR"
                /\ result.error = NoTextError

C13_Witness ==
    /\ RunReturned /\ AiZeroPages /\ OcrZeroPages
    /\ called = <<"create_ai_processor", "ai", "ocr">>

\* C14 as stated: for a PDF, on the AI path and on the OCR path alike, only the
\* first page is rasterized and processed, so the text the envelope is built
\* from is the text of the first page alone
C14_FirstPageOnly ==
    /\ ai.pages <= 1
    /\ (ocr.rasterized /\ ocr.pages # <<>>) =>
          extracted_text \in {<<>>, PdfText(<<Head(ocr.pages)>>)}

\* C14: for a PDF the AI path rasterizes the first page only, whatever the
\* number of pages of the document; the OCR path rasterizes every page, and the
\* text of every page that is not blank, under its page marker, is part of the
\* text whose length the envelope reports
C14_PagesPerPath ==
    /\ ai.pages <= 1
    /\ ai.converted => ai.pages = (IF ai.doc_pages = 0 THEN 0 ELSE 1)
    /\ (ocr.rasterized /\ extracted_text # <<>>) =>
          /\ \A i \in 1..Len(ocr.pages) :
                Strip(ocr.pages[i]) # <<>> =>
                   Contains(extracted_text, PageMarker(i) \o Strip(ocr.pages[i]))
          /\ (RunReturned /\ result.success) =>
                result.extracted_text_length = Len(extracted_text)

C14_Witness ==
    /\ RunReturned /\ result.success
    /\ ai.converted /\ ai.doc_pages > 1 /\ ai.pages = 1
    /\ Len(ocr.pages) > 1
    /\ \A i \in 1..Len(ocr.pages) : Strip(ocr.pages[i]) # <<>>
    /\ extracted_text # PdfText(<<Head(ocr.pages)>>)

\* the keys the extraction prompt asks the hosted model for
AiRecordKeys ==
    {"vendor_name", "vendor_email", "vendor_phone", "invoice_number", "invoice_date",
     "po_number", "vat_number", "total_amount", "subtotal", "tax_amount",
     "payment_terms", "dates_found"}

\* C15: every record the pattern extractor returns carries all twelve keys of
\* the AI record, po_number among them, and vendor_address, due_date,
\* customer_name, customer_number, currency and description as well
C15_RecordKeys ==
    \A i \in 1..Len(nlp.returned) :
       AiRecordKeys \cup {"vendor_address", "due_date", "customer_name",
                          "customer_number", "currency", "description"}
          \subseteq DOMAIN nlp.returned[i]

NoRepeat(s) == \A i, j \in 1..Len(s) : i # j => s[i] # s[j]

\* C16: dates_found of every record the pattern extractor returns has at most
\* five entries and holds no string twice, whatever the text
C16_DatesBounded ==
    \A i \in 1..Len(nlp.returned) :
       /\ Len(nlp.returned[i].dates_found) <= 5
       /\ NoRepeat(nlp.returned[i].dates_found)
       /\ Range(nlp.returned[i].dates_found) \subseteq Range(AllDates(nlp.m.dates))

C16_Witness ==
    /\ Len(nlp.returned) > 0
    /\ Cardinality(Range(AllDates(nlp.m.dates))) > 5
    /\ ~NoRepeat(AllDates(nlp.m.dates))
    /\ Len(nlp.returned[1].dates_found) = 5

\* C17: two invocations of the pattern extractor on the same text return the
\* same record, the members of dates_found included, in whichever run or
\* process each invocation takes place
C17_Deterministic ==
    Len(nlp.returned) > 1 => nlp.returned[1] = nlp.returned[2]

SimpleFields ==
    {"vendor_email", "vendor_phone", "invoice_number", "customer_number",
     "vat_number", "total_amount"}
Matching(per_pattern) == {i \in 1..Len(per_pattern) : per_pattern[i] # <<>>}
Lowest(S) == CHOOSE i \in S : \A j \in S : i <= j
\* what the loops of lines 116-157 make of a match of the field
Cleaned(field, match) ==
    IF field = "vendor_email" THEN match
    ELSE IF field = "total_amount" THEN <<"$">> \o Remove(match, ",")
    ELSE Strip(match)
Accepted(matches) == {k \in 1..Len(matches) : VendorAccepts(Strip(matches[k]))}
Accepting(per_pattern) ==
    {i \in 1..Len(per_pattern) : Accepted(per_pattern[i]) # {}}
Extracted == {i \in 1..Len(nlp.returned) : "error" \notin DOMAIN nlp.returned[i]}

\* C20 as stated: for vendor_name and the six other fields with a pattern list
\* the value comes from a match of the lowest-index pattern that matches the
\* text, and the field is null exactly when no pattern of its list matches
C20_LowestPattern ==
    \A i \in Extracted : \A field \in SimpleFields \cup {"vendor_name"} :
       LET per_pattern == nlp.m[field]
           value == nlp.returned[i][field]
       IN IF Matching(per_pattern) = {} THEN value = Null
          ELSE /\ value # Null
               /\ \E k \in 1..Len(per_pattern[Lowest(Matching(per_pattern))]) :
                     value = Cleaned(field, per_pattern[Lowest(Matching(per_pattern))][k])

\* C20: for the six fields other than vendor_name the value is the first match
\* of the lowest-index pattern that matches, and null exactly when no pattern
\* matches; vendor_name is the first match that passes the false-positive
\* filter, taken from the lowest-index pattern that has such a match, and null
\* exactly when no pattern has one
C20_LowestAccepted ==
    \A i \in Extracted :
       /\ \A field \in SimpleFields :
             LET per_pattern == nlp.m[field]
             IN nlp.returned[i][field] =
                   IF Matching(per_pattern) = {} THEN Null
                   ELSE Cleaned(field, per_pattern[Lowest(Matching(per_pattern))][1])
       /\ LET per_pattern == nlp.m.vendor_name
          IN nlp.returned[i].vendor_name =
                IF Accepting(per_pattern) = {} THEN Null
                ELSE LET matches == per_pattern[Lowest(Accepting(per_pattern))]
                     IN Strip(matches[Lowest(Accepted(matches))])

C20_Witness ==
    /\ Extracted # {}
    /\ Matching(nlp.m.vendor_name) # {}
    /\ Accepting(nlp.m.vendor_name) # {}
    /\ Lowest(Matching(nlp.m.vendor_name)) < Lowest(Accepting(nlp.m.vendor_name))
    /\ nlp.returned[1].vendor_name # Null

\* A run is sequential code: once every external call has returned or raised,
\* the next statement is executed.
FairSpec == Spec /\ WF_vars(Next)

\* C19: a run goes START, at most one AI attempt, at most one OCR attempt that
\* never precedes the AI attempt, DONE; the pattern extractor is invoked only
\* after OCR returned text; the returned envelope carries one of the four
\* processing_method tags, never "unknown"; and every run comes to its end
C19_Lifecycle ==
    /\ [](/\ Cardinality({i \in 1..Len(called) : called[i] = "ai"}) <= 1
          /\ Cardinality({i \in 1..Len(called) : called[i] = "ocr"}) <= 1
          /\ \A i, j \in 1..Len(called) :
                (called[i] = "ocr" /\ called[j] = "ai") => j < i
          /\ \A j \in 1..Len(called) :
                called[j] = "parse" =>
                   /\ \E i \in 1..(j - 1) : called[i] = "ocr"
                   /\ Len(Strip(extracted_text)) >= 10
          /\ RunReturned =>
                result.processing_method \in
                   {"AI (Google Gemini)", "Traditional OCR", "Traditional OCR + NLP", "Error"}
          /\ pc # "propagated")
    /\ <>(pc \in {"done", "api_done"})
    /\ [](input.caller = "direct" => <>(pc = "done" /\ RunReturned))

C19_Witness ==
    /\ pc = "done"
    /\ called = <<"create_ai_processor", "ai", "ocr", "parse">>
    /\ result.processing_method = "Traditional OCR + NLP"

\* C18: concurrent runs share no mutable state: no run sends its request with
\* a module-level client configuration that another run wrote, and no run
\* finds or removes a scratch file of another run
C18_NoSharedState ==
    \A r \in Runs :
       /\ conc.run[r].read.writer \in {0, r}
       /\ conc.run[r].pc = "done" => \A f \in conc.files : f[2] # r

\* the characters recognised on the pages, the markers of line 138 left aside
RECURSIVE RecoveredLen(_)
RecoveredLen(pages) ==
    IF pages = <<>> THEN 0
    ELSE Len(Strip(Head(pages))) + RecoveredLen(Tail(pages))

\* C21: for a PDF on the OCR path the threshold of ten characters is applied to
\* the recognised text without the page markers: when the pages yield between
\* one and nine characters in total, the pattern extractor is not invoked and
\* the run returns the no-meaningful-text failure
C21_ThresholdOnRecovered ==
    (ocr.rasterized /\ RecoveredLen(ocr.pages) > 0 /\ RecoveredLen(ocr.pages) < 10) =>
       /\ ~Has(called, "parse")
       /\ RunReturned =>
             /\ ~result.success
             /\ result.processing_method = "Traditional OCR"
             /\ result.error = NoTextError

\* text.split('\n')
RECURSIVE SplitLines(_)
SplitLines(s) ==
    IF \A i \in 1..Len(s) : s[i] # "\n" THEN <<s>>
    ELSE LET i == CHOOSE k \in 1..Len(s) : s[k] = "\n" /\ \A j \in 1..(k - 1) : s[j] # "\n"
         IN <<SubSeq(s, 1, i - 1)>> \o SplitLines(SubSeq(s, i + 1, Len(s)))

\* what enhance_text_quality leaves of a text: lines of two characters or more
\* without two whitespace characters in a row
Cleaned_Up(text) ==
    \A n \in 1..Len(SplitLines(text)) :
       LET line == SplitLines(text)[n]
       IN /\ Len(line) >= 2
          /\ \A i \in 1..(Len(line) - 1) :
                ~(line[i] \in Whitespace /\ line[i + 1] \in Whitespace)

\* C22: the text the OCR stage hands to the orchestrator has been through the
\* cleanup pass: it has no line shorter than two characters and no run of
\* whitespace inside a line
C22_CleanedText ==
    (Has(called, "ocr") /\ extracted_text # <<>>) => Cleaned_Up(extracted_text)

\* C23: whenever the run returns success through the AI path, extracted_data
\* carries exactly the twelve keys of the AI record, whatever syntactically
\* valid JSON the hosted model replied with
C23_AiRecordShape ==
    (RunReturned /\ result.success /\ result.processing_method = AiMethod) =>
       DOMAIN result.extracted_data = AiRecordKeys

\* C24: the pattern extractor assigns only vendor_name, vendor_email,
\* vendor_phone, invoice_number, customer_number, vat_number, total_amount and
\* dates_found: the nine other fields are null in every record it returns and
\* in every envelope of the OCR and pattern path
C24_UnassignedNull ==
    LET unassigned == {"vendor_address", "invoice_date", "due_date", "customer_name",
                       "subtotal", "tax_amount", "currency", "payment_terms",
                       "description"}
    IN /\ \A i \in 1..Len(nlp.returned) : \A field \in unassigned :
             nlp.returned[i][field] = Null
       /\ (RunReturned /\ result.processing_method = "Traditional OCR + NLP") =>
             \A field \in unassigned : result.extracted_data[field] = Null

C24_Witness ==
    /\ RunReturned
    /\ result.processing_method = "Traditional OCR + NLP"
    /\ result.extracted_data.invoice_number # Null
    /\ result.extracted_data.total_amount # Null
    /\ result.extracted_data.dates_found # <<>>
    /\ result.extracted_data.invoice_date = Null

====
